---- MODULE Spec2Model ----
(***************************************************************************)
(* State-machine model of the AHRS engine (src/NAV_Algorithms/AHRS.cpp),   *)
(* the flight observer (src/NAV_Algorithms/flight_observer.cpp) and the    *)
(* NMEA formatter (src/Output_Formatter/NMEA_format.cpp).                  *)
(*                                                                         *)
(* Scalars are integers in fixed units, 3-vectors are triples              *)
(* <<NORTH, EAST, DOWN>> (nav frame) or <<FRONT, RIGHT, DOWN>> (body       *)
(* frame).  Angles are counted in quarter turns (PI = 2), so SIN, COS and  *)
(* the heading wrap are exact.  The attitude is a yaw quadrant, set up     *)
(* before the first tick; one tick rotates it by gyro * Ts / 2, far less   *)
(* than a quarter turn, so at this resolution a tick leaves it in place.   *)
(* Members that are outputs only and feed no decision of the    *)
(* engine are not carried: the slip-angle, nick-angle and G-load averagers,*)
(* acceleration_nav_frame, magnetic_disturbance, gyro_correction and       *)
(* heading_difference_AHRS_DGNSS; euler and induction_nav_frame are        *)
(* functions of the attitude and of the inputs of the tick.                *)
(***************************************************************************)
EXTENDS Integers, Sequences, FiniteSets, TLC

\* ---------------------------------------------------------------- bounds
MaxRate       == 3   \* largest turn-rate magnitude fed to the averager
MaxIntegrator == 1   \* largest magnitude of a gyro-integrator component
MaxSamples    == 3   \* most samples a data collector holds between commits

\* ------------------------------------------- tuning parameters (§6 of spec)
CIRCLE_LIMIT                  == 2
HIGH_TURN_RATE                == 2
LOW_TURN_RATE                 == 1
NAV_CORRECTION_LIMIT          == 1
INDUCTION_STD_DEVIATION_LIMIT == 1
P_GAIN      == 1
I_GAIN      == 1
H_GAIN      == 1
CROSS_GAIN  == 1
M_H_GAIN    == 1
MAG_SCALE   == 2
UNITY       == 1     \* length of a unit vector, value of COS(0)
M_PI_F      == 2     \* half a turn, in quarter turns
INCLINATION == 0
DECLINATION == 0
antenna_DOWN_correction  == 0
antenna_RIGHT_correction == 1

STRAIGHT_FLIGHT == "STRAIGHT_FLIGHT"
TRANSITION      == "TRANSITION"
CIRCLING        == "CIRCLING"

NORTH == 1
EAST  == 2
DOWN  == 3
FRONT == 1
RIGHT == 2
YAW   == 3

\* ------------------------------------------------------- vector primitives
AbsInt(x) == IF x < 0 THEN -x ELSE x

\* x / y rounded towards zero, as a float-to-integer conversion does
TruncDiv(x, y) == IF x >= 0 THEN x \div y ELSE -((-x) \div y)

ISqrt(n) == CHOOSE r \in 0..n : r * r <= n /\ n < (r + 1) * (r + 1)

ZeroVector == <<0, 0, 0>>

VAdd(a, b) == <<a[1] + b[1], a[2] + b[2], a[3] + b[3]>>

VSub(a, b) == <<a[1] - b[1], a[2] - b[2], a[3] - b[3]>>

VScale(a, k) == <<a[1] * k, a[2] * k, a[3] * k>>

VDiv(a, k) == <<TruncDiv(a[1], k), TruncDiv(a[2], k), TruncDiv(a[3], k)>>

NormSq(a) == a[1] * a[1] + a[2] * a[2] + a[3] * a[3]

\* float3vector::abs
VAbs(a) == ISqrt(NormSq(a))

\* float3vector::normalize, to length UNITY
Normalize(a) == VDiv(VScale(a, UNITY), VAbs(a))

\* float3matrix * float3vector
MatVec(m, v) ==
  << m[1][1] * v[1] + m[1][2] * v[2] + m[1][3] * v[3],
     m[2][1] * v[1] + m[2][2] * v[2] + m[2][3] * v[3],
     m[3][1] * v[1] + m[3][2] * v[2] + m[3][3] * v[3] >>

\* float3matrix::reverse_map: the transposed matrix applied to v
ReverseMap(m, v) ==
  << m[1][1] * v[1] + m[2][1] * v[2] + m[3][1] * v[3],
     m[1][2] * v[1] + m[2][2] * v[2] + m[3][2] * v[3],
     m[1][3] * v[1] + m[2][3] * v[2] + m[3][3] * v[3] >>

\* SIN and COS of an angle in quarter turns, scaled to 1
SIN(a) == CASE a % 4 = 0 -> 0 [] a % 4 = 1 -> 1 [] a % 4 = 2 -> 0 [] a % 4 = 3 -> -1

COS(a) == SIN(a + 1)

\* ----------------------------------------------------------------- attitude
Attitudes == {0, 1}

\* quaternion::get_rotation_matrix for a yaw of q quarter turns
get_rotation_matrix(q) ==
  << << COS(q), -SIN(q), 0 >>,
     << SIN(q),  COS(q), 0 >>,
     << 0,       0,      1 >> >>

\* eulerangle = quaternion: roll, nick, yaw in (-PI, PI]
EulerOf(q) == [r |-> 0, n |-> 0, y |-> IF q % 4 = 3 THEN -1 ELSE q % 4]

\* averager::respond: first-order low pass, the distance to the input halves
Respond(output, input) == input - TruncDiv(input - output, 2)

VARIABLES
  circling_counter,            \* AHRS_type::circling_counter
  circling_state,              \* AHRS_type::circling_state
  turn_rate,                   \* turn_rate_averager.get_output()
  attitude,                    \* AHRS_type::attitude (yaw quadrant)
  body2nav,                    \* AHRS_type::body2nav
  nav_correction,              \* AHRS_type::nav_correction
  gyro_integrator,             \* AHRS_type::gyro_integrator
  expected_nav_induction,      \* AHRS_type::expected_nav_induction
  magnetic_control_gain,       \* AHRS_type::magnetic_control_gain
  compass_calibration,         \* AHRS_type::compass_calibration
  mag_calibration_data_collector,
  earth_induction_data_collector,
  automatic_magnetic_calibration,
  automatic_earth_field_parameters,
  calls,                       \* the member functions the last call called, in order
  report_out,                  \* reports handed to report_magnetic_calibration_has_changed by the last tick
  handler,                     \* the public member function that ran last
  old_circle_state,            \* circling_state before the last tick
  turn_rate_abs,               \* turn_rate_abs as the last tick read it
  scenario,                    \* the phase of the turn-entry scenario and its tick counts
  \* flight_observer_t (src/NAV_Algorithms/flight_observer.cpp)
  KalmanVario_pressure,
  KalmanVario_GNSS,
  Kalman_v_a_observer_N,
  Kalman_v_a_observer_E,
  kinetic_energy_differentiator,
  specific_energy_differentiator,
  windspeed_decimator_100Hz_10Hz,
  GNSS_INS_speedcomp_fusioner,
  vario_averager_pressure,
  vario_averager_GNSS,
  vario_uncompensated_pressure,
  vario_uncompensated_GNSS,
  speed_compensation_IAS,
  speed_compensation_GNSS,
  speed_compensation_INS_GNSS_1,
  speed_compensation_kalman_2,
  speed_compensation_energy_3,
  specific_energy,
  GNSS_fix_avaliable,          \* the fix flag of the last observer tick
  stepped,                     \* the filters the last observer call stepped
  \* NMEA formatter (src/Output_Formatter/NMEA_format.cpp)
  NMEA_buf,                    \* string_buffer_t: string (its bytes up to the last one written) and length
  nmea_call                    \* the formatter call that filled the buffer, with its input

ahrs_vars ==
  << circling_counter, circling_state, turn_rate, attitude, body2nav,
     nav_correction, gyro_integrator, expected_nav_induction, magnetic_control_gain,
     compass_calibration, mag_calibration_data_collector,
     earth_induction_data_collector, automatic_magnetic_calibration,
     automatic_earth_field_parameters, calls, report_out >>

\* what the last tick did and saw, kept for the properties that speak of it
history_vars == << handler, old_circle_state, turn_rate_abs >>

\* the filters of the GNSS path of the flight observer
gnss_filter_vars ==
  << KalmanVario_GNSS, Kalman_v_a_observer_N, Kalman_v_a_observer_E,
     specific_energy_differentiator, windspeed_decimator_100Hz_10Hz,
     GNSS_INS_speedcomp_fusioner >>

\* the outputs only a tick with a GNSS fix writes
gnss_output_vars ==
  << speed_compensation_INS_GNSS_1, speed_compensation_kalman_2,
     speed_compensation_energy_3, specific_energy >>

observer_vars ==
  << KalmanVario_pressure, kinetic_energy_differentiator, vario_averager_pressure,
     vario_averager_GNSS, vario_uncompensated_pressure, vario_uncompensated_GNSS,
     speed_compensation_IAS, speed_compensation_GNSS, gnss_filter_vars,
     gnss_output_vars, GNSS_fix_avaliable, stepped >>

formatter_vars == << NMEA_buf, nmea_call >>

\* what an AHRS tick leaves alone
other_vars == << observer_vars, formatter_vars >>

vars == << ahrs_vars, history_vars, scenario, other_vars >>

\* Sensitivity variants of the counter step: the first drops the upper guard
\* of the increment, the second compares with >= instead of >.
CounterAfter_Unguarded(c, r) ==
  LET c1 == IF r > HIGH_TURN_RATE THEN c + 1 ELSE c
  IN  IF c1 > 0 /\ r < LOW_TURN_RATE THEN c1 - 1 ELSE c1

CounterAfter_NonStrict(c, r) ==
  LET c1 == IF c < CIRCLE_LIMIT /\ r >= HIGH_TURN_RATE THEN c + 1 ELSE c
  IN  IF c1 > 0 /\ r < LOW_TURN_RATE THEN c1 - 1 ELSE c1

\* Sensitivity variant: the counter falls by two per tick of low turn rate.
CounterAfter_FastExit(c, r) ==
  LET c1 == IF c < CIRCLE_LIMIT /\ r > HIGH_TURN_RATE THEN c + 1 ELSE c
  IN  IF c1 > 0 /\ r < LOW_TURN_RATE
      THEN (IF c1 > 1 THEN c1 - 2 ELSE 0)
      ELSE c1

\* ------------------------------------------------- circling-state machine
\* update_circling_state, the two counter steps for turn-rate magnitude r
CounterAfter(c, r) ==
  LET c1 == IF c < CIRCLE_LIMIT /\ r > HIGH_TURN_RATE THEN c + 1 ELSE c
  IN  IF c1 > 0 /\ r < LOW_TURN_RATE THEN c1 - 1 ELSE c1

\* Sensitivity variant: CIRCLING declared one count early.
StateOf_EarlyCircling(c) ==
  IF c = 0 THEN STRAIGHT_FLIGHT
  ELSE IF c >= CIRCLE_LIMIT - 1 THEN CIRCLING ELSE TRANSITION

\* update_circling_state, the state belonging to a counter value
StateOf(c) ==
  IF c = 0 THEN STRAIGHT_FLIGHT
  ELSE IF c = CIRCLE_LIMIT THEN CIRCLING
  ELSE TRANSITION

\* ------------------------------------------------ magnetic data collectors
EmptyFit == [n |-> 0, sd |-> 0, sq |-> 0]

EmptyMagCollector == << EmptyFit, EmptyFit, EmptyFit >>

\* linear_least_square_fit::add_value(x, y): one more pair of expected and
\* measured induction; the sums of the mismatch and of its square are kept
add_value(fit, x, y) ==
  [n |-> fit.n + 1, sd |-> fit.sd + (y - x), sq |-> fit.sq + (y - x) * (y - x)]

\* residual variance of the fit of one axis
FitVariance(fit) ==
  IF fit.n = 0 THEN 0 ELSE (fit.n * fit.sq - fit.sd * fit.sd) \div (fit.n * fit.n)

NoCalibration == [done |-> FALSE, bias |-> ZeroVector, variance |-> 0]

\* compass_calibration::isCalibrationDone
isCalibrationDone(cal) == cal.done

\* compass_calibration::calibrate: remove the bias of each axis
calibrate(cal, mag) == VSub(mag, cal.bias)

\* compass_calibration::set_calibration_if_changed: fit a bias per axis and
\* install it when the fit is better than the one installed
set_calibration_if_changed(cal, collector, scale, turning_right) ==
  LET n        == collector[1].n
      variance == FitVariance(collector[1]) + FitVariance(collector[2])
                    + FitVariance(collector[3])
      better   == n > 0 /\ (~cal.done \/ variance < cal.variance)
      bias     == [i \in 1..3 |-> TruncDiv(collector[i].sd, n * scale)]
  IN  [changed     |-> better,
       calibration |-> IF better
                       THEN [done |-> TRUE, bias |-> bias, variance |-> variance]
                       ELSE cal,
       collector   |-> EmptyMagCollector]

EmptyEarthCollector == [left |-> 0, right |-> 0, sum |-> ZeroVector, sq |-> 0]

EarthSamples(c) == c.left + c.right

\* earth_induction_data_collector::feed: the sample is kept scaled by
\* MAG_SCALE, counted for the turn direction it was taken in
feed(c, induction, right_turn) ==
  [left  |-> IF right_turn THEN c.left ELSE c.left + 1,
   right |-> IF right_turn THEN c.right + 1 ELSE c.right,
   sum   |-> VAdd(c.sum, VScale(induction, MAG_SCALE)),
   sq    |-> c.sq + NormSq(VScale(induction, MAG_SCALE))]

\* earth_induction_data_collector::data_valid
data_valid(c) == EarthSamples(c) > 0

\* earth_induction_data_collector::get_variance
get_variance(c) ==
  (EarthSamples(c) * c.sq - NormSq(c.sum)) \div (EarthSamples(c) * EarthSamples(c))

\* earth_induction_data_collector::get_estimated_induction
get_estimated_induction(c) == VDiv(c.sum, EarthSamples(c) * MAG_SCALE)

\* update_magnetic_loop_gain: the gain grows as the horizontal induction shrinks
update_magnetic_loop_gain(e_nav) ==
  TruncDiv(M_H_GAIN * UNITY, ISqrt(e_nav[NORTH] * e_nav[NORTH] + e_nav[EAST] * e_nav[EAST]))

\* feed_magnetic_induction_observer: the collectors after one sample
FedMagCollector(collector, b2n, e_nav, mag_sensor) ==
  LET expected_body_induction == ReverseMap(b2n, e_nav)
  IN  [i \in 1..3 |->
         add_value(collector[i], MAG_SCALE * expected_body_induction[i],
                   MAG_SCALE * mag_sensor[i])]

FedEarthCollector(collector, ind_nav, rate) == feed(collector, ind_nav, rate > 0)

\* Sensitivity variant: the deviation limit compared with <=.
AcceptEarthInduction_AtLimit(auto_earth, induction_error) ==
  auto_earth /\ induction_error <= INDUCTION_STD_DEVIATION_LIMIT

\* whether handle_magnetic_calibration takes over the estimated induction
AcceptEarthInduction(auto_earth, induction_error) ==
  auto_earth /\ induction_error < INDUCTION_STD_DEVIATION_LIMIT

\* Sensitivity variant: the report is sent after every commit.
ReportNeeded_Always(calibration_changed) == TRUE

\* whether handle_magnetic_calibration reports
ReportNeeded(calibration_changed) == calibration_changed

\* handle_magnetic_calibration: the members it leaves and the report it sends
handle_magnetic_calibration(cal, mag_collector, earth_collector, e_nav, gain, rate, auto_earth, type) ==
  LET set     == set_calibration_if_changed(cal, mag_collector, MAG_SCALE, rate > 0)
      valid   == data_valid(earth_collector)
      induction_error == IF valid THEN ISqrt(get_variance(earth_collector)) ELSE 0
      accept  == valid /\ AcceptEarthInduction(auto_earth, induction_error)
      e_new   == IF accept
                 THEN Normalize(get_estimated_induction(earth_collector))
                 ELSE e_nav
      calibration_changed == set.changed \/ accept
  IN  [calibration     |-> set.calibration,
       mag_collector   |-> set.collector,
       earth_collector |-> IF valid THEN EmptyEarthCollector ELSE earth_collector,
       e_nav           |-> e_new,
       gain            |-> IF accept THEN update_magnetic_loop_gain(e_new) ELSE gain,
       report          |-> IF ReportNeeded(calibration_changed)
                           THEN << [calibration |-> set.calibration.bias,
                                    nav_induction |-> e_new,
                                    nav_induction_std_deviation |-> induction_error,
                                    type |-> type] >>
                           ELSE << >>]

\* ------------------------------------------- filters of the flight observer
\* KalmanVario_PVA_t::reset(altitude, acceleration): the filter restarts at
\* the altitude given, at rest; the acceleration presets the acceleration
\* offset of the filter, which is not carried here
KalmanVario_reset(altitude, acceleration) ==
  [altitude |-> altitude, vario |-> 0, acceleration_observed |-> 0]

\* KalmanVario_PVA_t::update(altitude, acceleration): the state follows the
\* measurements, the vario is the change of altitude
KalmanVario_update(x, altitude, acceleration) ==
  [altitude |-> altitude, vario |-> altitude - x.altitude,
   acceleration_observed |-> acceleration]

\* KalmanVario_PVA_t::update(altitude, velocity, acceleration)
KalmanVario_update_velocity(x, altitude, velocity, acceleration) ==
  [altitude |-> altitude, vario |-> velocity, acceleration_observed |-> acceleration]

\* Kalman_V_A_Aoff_observer_t: state after construction and after update
Kalman_V_A_reset == [velocity |-> 0, acceleration |-> 0]

Kalman_V_A_update(x, velocity, acceleration) ==
  [velocity |-> velocity, acceleration |-> acceleration]

\* differentiator::respond: the change of the input since the last call
differentiator_reset == [old |-> 0, output |-> 0]

differentiator_respond(d, input) == [old |-> input, output |-> input - d.old]

\* pt2 averager: its output and the input it was last fed
averager_reset == [output |-> 0, input |-> 0]

averager_respond(a, input) == [output |-> Respond(a.output, input), input |-> input]

\* decimator::respond: the wind sample last taken in
decimator_reset == [input |-> ZeroVector]

decimator_respond(d, input) == [input |-> input]

\* the blender of the fast and the long-term speed compensation
fusioner_reset == [output |-> 0]

fusioner_respond(f, fast, slow) == [output |-> slow + TruncDiv(fast - slow, 2)]

\* ------------------------------------------------------------------ inputs
\* straight flight or a turn to the right at the largest rate
FlightGyroInputs == { <<0, 0, 0>>, <<0, 0, MaxRate>> }

\* level flight, and for the acceleration-only mode also a slip to the right
AccInputs    == { <<0, 0, -2>> }

AccOnlyInputs == { <<0, 0, -2>>, <<0, 1, -2>> }

\* the expected induction seen heading north, and one with an inclination
TrueMagInputs == { <<1, 0, 0>> }

MagInputs    == { <<1, 0, 0>>, <<1, 0, 1>> }

GNSSAccInputs == { <<0, 0, 0>> }

HeadingInputs == { 1, 2 }

SteadyHeadingInputs == { 1 }

\* compass_calibration::read_from_EEPROM: no calibration stored yet
EEPROMContents == { NoCalibration }

InRange(v, limit) == \A i \in 1..3 : AbsInt(v[i]) <= limit

\* float3matrix(): what the default constructor may leave in body2nav, the
\* unit matrix or a matrix of zeros
ConstructedMatrices ==
  { get_rotation_matrix(0), << ZeroVector, ZeroVector, ZeroVector >> }

\* ------------------------------------------------------------- constructor
Init ==
  /\ circling_counter = 0
  /\ circling_state = STRAIGHT_FLIGHT
  /\ turn_rate = 0
  /\ attitude = 0
  /\ body2nav \in ConstructedMatrices
  /\ nav_correction = ZeroVector
  /\ gyro_integrator = ZeroVector
  /\ expected_nav_induction =
       << UNITY * COS(INCLINATION),
          UNITY * COS(INCLINATION) * SIN(DECLINATION),
          UNITY * SIN(INCLINATION) >>
  /\ magnetic_control_gain = update_magnetic_loop_gain(expected_nav_induction)
  /\ compass_calibration \in EEPROMContents
  /\ mag_calibration_data_collector = EmptyMagCollector
  /\ earth_induction_data_collector = EmptyEarthCollector
  /\ automatic_magnetic_calibration \in BOOLEAN
  /\ automatic_earth_field_parameters \in BOOLEAN
  /\ calls = << >>
  /\ handler = "AHRS_type"
  /\ old_circle_state = STRAIGHT_FLIGHT
  /\ turn_rate_abs = 0
  /\ scenario = [phase |-> "turn", rate |-> 0, ticks |-> 0, passed |-> 0]
  /\ KalmanVario_pressure = KalmanVario_reset(0, 0)
  /\ KalmanVario_GNSS = KalmanVario_reset(0, 0)
  /\ Kalman_v_a_observer_N = Kalman_V_A_reset
  /\ Kalman_v_a_observer_E = Kalman_V_A_reset
  /\ kinetic_energy_differentiator = differentiator_reset
  /\ specific_energy_differentiator = differentiator_reset
  /\ windspeed_decimator_100Hz_10Hz = decimator_reset
  /\ GNSS_INS_speedcomp_fusioner = fusioner_reset
  /\ vario_averager_pressure = averager_reset
  /\ vario_averager_GNSS = averager_reset
  /\ vario_uncompensated_pressure = 0
  /\ vario_uncompensated_GNSS = 0
  /\ speed_compensation_IAS = 0
  /\ speed_compensation_GNSS = 0
  /\ speed_compensation_INS_GNSS_1 = 0
  /\ speed_compensation_kalman_2 = 0
  /\ speed_compensation_energy_3 = 0
  /\ specific_energy = 0
  /\ GNSS_fix_avaliable = TRUE
  /\ stepped = {}
  /\ NMEA_buf = [string |-> << >>, length |-> 0]
  /\ nmea_call = [function |-> "none", input |-> << >>]
  /\ report_out = << >>

\* Sensitivity variants of the integrator rules.
IntegratorPermittedDGNSS_NotCircling(state) == state # CIRCLING

IntegratorPermittedCompass_StraightOnly(state) == state = STRAIGHT_FLIGHT

IntegratorPermittedAccOnly_StraightOnly(state) == state = STRAIGHT_FLIGHT

\* ------------------------------------------------------------ mode rules
\* update_diff_GNSS: the integrator is updated in straight flight only
IntegratorPermittedDGNSS(state) == state = STRAIGHT_FLIGHT

\* update_compass: the switch cases that update the integrator
IntegratorPermittedCompass(state) == state \in {STRAIGHT_FLIGHT, TRANSITION}

\* update_ACC_only: the integrator is updated on every tick
IntegratorPermittedAccOnly(state) == TRUE

\* Sensitivity variant: the correction limit compared with <=.
FeedPermitted_NonStrict(state, correction) ==
  state = CIRCLING /\ VAbs(correction) <= NAV_CORRECTION_LIMIT

\* the condition guarding feed_magnetic_induction_observer
FeedPermitted(state, correction) ==
  state = CIRCLING /\ VAbs(correction) < NAV_CORRECTION_LIMIT

\* Sensitivity variant: the commit forgets the state before the tick.
CommitDue_OnEntry(auto, old, new) == auto /\ new = TRANSITION

\* the condition guarding handle_magnetic_calibration
CommitDue(auto, old, new) == auto /\ old = CIRCLING /\ new = TRANSITION

\* horizontal leveling error and the cross product of INS and GNSS acceleration
Leveling(nav_acceleration, GNSS_acceleration) ==
  [north |-> -nav_acceleration[EAST] + GNSS_acceleration[EAST],
   east  |-> nav_acceleration[NORTH] - GNSS_acceleration[NORTH],
   cross |-> nav_acceleration[NORTH] * GNSS_acceleration[EAST]
               - nav_acceleration[EAST] * GNSS_acceleration[NORTH]]

\* heading error from the induction: cross product of measured and expected
MagCorrection(nav_induction, e_nav) ==
  nav_induction[NORTH] * e_nav[EAST] - nav_induction[EAST] * e_nav[NORTH]

\* update_diff_GNSS: heading difference D-GNSS - AHRS mapped into {-PI, PI}
HeadingDifference(GNSS_heading, eul) ==
  LET h0 == GNSS_heading + antenna_DOWN_correction * SIN(eul.r)
                         - antenna_RIGHT_correction * COS(eul.r)
      h1 == h0 - eul.y
      h2 == IF h1 > M_PI_F THEN h1 - 2 * M_PI_F ELSE h1
  IN  IF h2 < -M_PI_F THEN h2 + 2 * M_PI_F ELSE h2

\* ------------------------------------------------- the shared tail of a tick
\* attitude.rotate and attitude.normalize, at the resolution of a quadrant
rotate(q, p, qq, r) == q

\* update_attitude with the corrected gyro: rotate, normalize, rotation
\* matrix, turn-rate averager
update_attitude(acc, gyro, mag) ==
  LET q   == rotate(attitude, gyro[FRONT], gyro[RIGHT], gyro[YAW])
      b2n == get_rotation_matrix(q)
      nav_rotation == MatVec(b2n, gyro)
  IN  /\ AbsInt(nav_rotation[DOWN]) <= MaxRate
      /\ attitude' = q
      /\ body2nav' = b2n
      /\ turn_rate' = Respond(turn_rate, nav_rotation[DOWN])

\* the lines after update_attitude in update_diff_GNSS and update_compass:
\* feed the collectors, then commit the calibration on leaving circling
FeedAndCommit(new_state, old_state, correction, mag_sensor, mag, type) ==
  LET fed == FeedPermitted(new_state, correction)
      mc1 == IF fed
             THEN FedMagCollector(mag_calibration_data_collector, body2nav',
                                  expected_nav_induction, mag_sensor)
             ELSE mag_calibration_data_collector
      ec1 == IF fed
             THEN FedEarthCollector(earth_induction_data_collector,
                                    MatVec(body2nav', mag), turn_rate')
             ELSE earth_induction_data_collector
      due == CommitDue(automatic_magnetic_calibration, old_state, new_state)
      h   == handle_magnetic_calibration(compass_calibration, mc1, ec1,
                 expected_nav_induction, magnetic_control_gain, turn_rate',
                 automatic_earth_field_parameters, type)
  IN  /\ mc1[1].n <= MaxSamples
      /\ mag_calibration_data_collector' = IF due THEN h.mag_collector ELSE mc1
      /\ earth_induction_data_collector' = IF due THEN h.earth_collector ELSE ec1
      /\ compass_calibration' = IF due THEN h.calibration ELSE compass_calibration
      /\ expected_nav_induction' = IF due THEN h.e_nav ELSE expected_nav_induction
      /\ magnetic_control_gain' = IF due THEN h.gain ELSE magnetic_control_gain
      /\ report_out' = IF due THEN h.report ELSE << >>
      /\ calls' = << "update_circling_state", "update_attitude" >>
                    \o (IF fed THEN << "feed_magnetic_induction_observer" >> ELSE << >>)
                    \o (IF due THEN << "handle_magnetic_calibration" >> ELSE << >>)

\* ------------------------------------------------------- update_diff_GNSS
update_diff_GNSS(gyro, acc, mag_sensor, GNSS_acceleration, GNSS_heading) ==
  LET old   == circling_state
      r     == AbsInt(turn_rate)
      c1    == CounterAfter(circling_counter, r)
      s1    == StateOf(c1)
      mag   == IF isCalibrationDone(compass_calibration)
               THEN calibrate(compass_calibration, mag_sensor)
               ELSE mag_sensor
      nav_acceleration == MatVec(body2nav, acc)
      nav_induction    == MatVec(body2nav, mag)
      heading_gnss_work == HeadingDifference(GNSS_heading, EulerOf(attitude))
      lev   == Leveling(nav_acceleration, GNSS_acceleration)
      down  == IF s1 = CIRCLING
               THEN lev.cross * CROSS_GAIN
                      + MagCorrection(nav_induction, expected_nav_induction)
                          * magnetic_control_gain
               ELSE heading_gnss_work * H_GAIN
      corr  == << lev.north, lev.east, down >>
      p     == VScale(ReverseMap(body2nav, corr), P_GAIN)
      gi    == IF IntegratorPermittedDGNSS(s1)
               THEN VAdd(gyro_integrator, p)
               ELSE gyro_integrator
      total == VAdd(p, VScale(gi, I_GAIN))
  IN  /\ InRange(gi, MaxIntegrator)
      /\ circling_counter' = c1
      /\ circling_state' = s1
      /\ nav_correction' = corr
      /\ gyro_integrator' = gi
      /\ update_attitude(acc, VAdd(gyro, total), mag)
      /\ FeedAndCommit(s1, old, corr, mag_sensor, mag, "s")
      /\ UNCHANGED << automatic_magnetic_calibration, automatic_earth_field_parameters >>

\* --------------------------------------------------------- update_compass
update_compass(gyro, acc, mag_sensor, GNSS_acceleration) ==
  LET mag   == IF isCalibrationDone(compass_calibration)
               THEN calibrate(compass_calibration, mag_sensor)
               ELSE mag_sensor
      nav_acceleration == MatVec(body2nav, acc)
      nav_induction    == MatVec(body2nav, mag)
      lev   == Leveling(nav_acceleration, GNSS_acceleration)
      old   == circling_state
      r     == AbsInt(turn_rate)
      c1    == CounterAfter(circling_counter, r)
      s1    == StateOf(c1)
      mag_correction == MagCorrection(nav_induction, expected_nav_induction)
      down  == IF s1 = CIRCLING
               THEN lev.cross * CROSS_GAIN + mag_correction * M_H_GAIN
               ELSE magnetic_control_gain * mag_correction
      corr  == << lev.north, lev.east, down >>
      p     == VScale(ReverseMap(body2nav, corr), P_GAIN)
      gi    == IF IntegratorPermittedCompass(s1)
               THEN VAdd(gyro_integrator, p)
               ELSE gyro_integrator
      total == VAdd(p, VScale(gi, I_GAIN))
  IN  /\ InRange(gi, MaxIntegrator)
      /\ circling_counter' = c1
      /\ circling_state' = s1
      /\ nav_correction' = corr
      /\ gyro_integrator' = gi
      /\ update_attitude(acc, VAdd(gyro, total), mag)
      /\ FeedAndCommit(s1, old, corr, mag_sensor, mag, "m")
      /\ UNCHANGED << automatic_magnetic_calibration, automatic_earth_field_parameters >>

\* ------------------------------------------------------------------ update
update(gyro, acc, mag, GNSS_acceleration, GNSS_heading, GNSS_heading_valid) ==
  IF GNSS_heading_valid
  THEN update_diff_GNSS(gyro, acc, mag, GNSS_acceleration, GNSS_heading)
  ELSE update_compass(gyro, acc, mag, GNSS_acceleration)

\* -------------------------------------------------------- update_ACC_only
update_ACC_only(gyro, acc, mag, GNSS_acceleration) ==
  LET nav_acceleration == MatVec(body2nav, acc)
      lev   == Leveling(nav_acceleration, GNSS_acceleration)
      r     == AbsInt(turn_rate)
      c1    == CounterAfter(circling_counter, r)
      s1    == StateOf(c1)
      cross_correction == IF s1 = STRAIGHT_FLIGHT THEN lev.cross * 40 ELSE lev.cross
      corr  == << lev.north, lev.east, cross_correction * CROSS_GAIN >>
      p     == VScale(ReverseMap(body2nav, corr), P_GAIN)
      gi    == IF IntegratorPermittedAccOnly(s1)
               THEN VAdd(gyro_integrator, p)
               ELSE gyro_integrator
      total == VAdd(p, VScale(gi, I_GAIN))
  IN  /\ InRange(gi, MaxIntegrator)
      /\ circling_counter' = c1
      /\ circling_state' = s1
      /\ nav_correction' = corr
      /\ gyro_integrator' = gi
      /\ update_attitude(acc, VAdd(gyro, total), mag)
      /\ calls' = << "update_circling_state", "update_attitude" >>
      /\ report_out' = << >>
      /\ UNCHANGED << expected_nav_induction, magnetic_control_gain,
                      compass_calibration, mag_calibration_data_collector,
                      earth_induction_data_collector,
                      automatic_magnetic_calibration,
                      automatic_earth_field_parameters >>

\* float3vector::vector_multiply
Cross(a, b) ==
  << a[2] * b[3] - a[3] * b[2], a[3] * b[1] - a[1] * b[3], a[1] * b[2] - a[2] * b[1] >>

\* attitude_setup, lines 43-71: the rows north, east, down of the rotation
\* matrix, from the acceleration and the (calibrated) induction
SetupCoordinates(cal, acceleration, mag) ==
  LET induction == IF isCalibrationDone(cal) THEN calibrate(cal, mag) ELSE mag
      down   == Normalize(VScale(acceleration, -1))
      north0 == Normalize(induction)
      east   == Normalize(Cross(down, north0))
      north  == Normalize(Cross(east, down))
  IN  << north, east, down >>

\* quaternion::from_rotation_matrix, at the resolution of a quadrant
from_rotation_matrix(coordinates) ==
  CHOOSE q \in Attitudes : get_rotation_matrix(q) = coordinates

\* attitude_setup: initial attitude from observables.  The vectors it
\* normalizes are nonzero and the attitude found is one of the quadrants.
attitude_setup(acceleration, mag) ==
  LET induction == IF isCalibrationDone(compass_calibration)
                   THEN calibrate(compass_calibration, mag) ELSE mag
      coordinates == SetupCoordinates(compass_calibration, acceleration, mag)
  IN  /\ VAbs(acceleration) > 0
      /\ VAbs(induction) > 0
      /\ VAbs(Cross(Normalize(VScale(acceleration, -1)), Normalize(induction))) > 0
      /\ \E q \in Attitudes : get_rotation_matrix(q) = coordinates
      /\ attitude' = from_rotation_matrix(coordinates)
      /\ body2nav' = get_rotation_matrix(attitude')
      /\ calls' = << >>
      /\ report_out' = << >>
      /\ UNCHANGED << circling_counter, circling_state, turn_rate,
                      nav_correction, gyro_integrator, expected_nav_induction,
                      magnetic_control_gain, compass_calibration,
                      mag_calibration_data_collector,
                      earth_induction_data_collector,
                      automatic_magnetic_calibration,
                      automatic_earth_field_parameters >>

\* inductions seen heading north and heading east, and one with an inclination
SetupMagInputs == { << 1, 0, 0 >>, << 0, -1, 0 >>, << 1, 0, 1 >> }

\* the history of a tick run by the update function named name
History(name) ==
  /\ handler' = name
  /\ old_circle_state' = circling_state
  /\ turn_rate_abs' = AbsInt(turn_rate)

\* ---------------------------------------------------------------------------
\* Flight with a magnetometer that measures the expected induction: every
\* mix of the three update functions, turn rates and GNSS headings.
UpdateTick ==
  \E gyro \in FlightGyroInputs, acc \in AccInputs, mag \in TrueMagInputs,
     GNSS_acceleration \in GNSSAccInputs, GNSS_heading \in HeadingInputs,
     GNSS_heading_valid \in BOOLEAN :
       /\ update(gyro, acc, mag, GNSS_acceleration, GNSS_heading, GNSS_heading_valid)
       /\ History(IF GNSS_heading_valid THEN "update_diff_GNSS" ELSE "update_compass")
       /\ UNCHANGED << scenario, other_vars >>

AccOnlyTick ==
  \E gyro \in FlightGyroInputs, acc \in AccOnlyInputs, mag \in TrueMagInputs,
     GNSS_acceleration \in GNSSAccInputs :
       /\ update_ACC_only(gyro, acc, mag, GNSS_acceleration)
       /\ History("update_ACC_only")
       /\ UNCHANGED << scenario, other_vars >>

\* attitude_setup called on the object, before the first tick or in flight
AttitudeSetupTick ==
  \E acc \in AccInputs, mag \in SetupMagInputs :
    /\ attitude_setup(acc, mag)
    /\ handler' = "attitude_setup"
    /\ UNCHANGED << old_circle_state, turn_rate_abs, scenario, other_vars >>

Next == UpdateTick \/ AccOnlyTick \/ AttitudeSetupTick

\* Spec flies with both automatic calibrations configured on; CalSpec below
\* covers every configuration.
FlightInit ==
  /\ Init
  /\ automatic_magnetic_calibration
  /\ automatic_earth_field_parameters

Spec == FlightInit /\ [][Next]_vars

\* ---------------------------------------------------------------------------
\* Flight on a steady GNSS heading with a magnetometer that may read an
\* induction other than the expected one, so that the calibration and the
\* Earth-induction estimate have something to learn.
CalUpdateTick ==
  \E gyro \in FlightGyroInputs, acc \in AccInputs, mag \in MagInputs,
     GNSS_acceleration \in GNSSAccInputs, GNSS_heading \in SteadyHeadingInputs,
     GNSS_heading_valid \in BOOLEAN :
       /\ update(gyro, acc, mag, GNSS_acceleration, GNSS_heading, GNSS_heading_valid)
       /\ UNCHANGED << history_vars, scenario, other_vars >>

CalAccOnlyTick ==
  \E gyro \in FlightGyroInputs, acc \in AccInputs, mag \in TrueMagInputs,
     GNSS_acceleration \in GNSSAccInputs :
       /\ update_ACC_only(gyro, acc, mag, GNSS_acceleration)
       /\ UNCHANGED << history_vars, scenario, other_vars >>

\* the calibration flight is set up again heading east
CalSetupMagInputs == { << 0, -1, 0 >> }

CalAttitudeSetupTick ==
  \E acc \in AccInputs, mag \in CalSetupMagInputs :
    /\ attitude_setup(acc, mag)
    /\ UNCHANGED << history_vars, scenario, other_vars >>

CalNext == CalUpdateTick \/ CalAccOnlyTick \/ CalAttitudeSetupTick

CalSpec == Init /\ [][CalNext]_vars

\* ---------------------------------------------------------------------------
\* Turn entry and exit (spec §8, scenario 2): from straight flight the yaw
\* rate steps to one of HoldRates and is held until the state is CIRCLING,
\* then steps back to 0 and is held.  The attitude loop is quiescent, so the averager
\* sees the yaw rate itself.  scenario.ticks counts the ticks since the step,
\* scenario.passed those among them that began with the averaged turn rate
\* beyond the threshold of the phase.
HoldRates == { -(HIGH_TURN_RATE + 1), HIGH_TURN_RATE + 1 }

HoldTicks == CIRCLE_LIMIT + 3

Quiescent == nav_correction' = ZeroVector /\ gyro_integrator' = ZeroVector

ScenarioTurnTick ==
  /\ scenario.phase = "turn"
  /\ scenario.ticks < HoldTicks
  /\ \E rate \in HoldRates, acc \in AccInputs, mag \in TrueMagInputs,
        GNSS_acceleration \in GNSSAccInputs, GNSS_heading \in HeadingInputs,
        GNSS_heading_valid \in BOOLEAN :
          /\ scenario.ticks > 0 => rate = scenario.rate
          /\ update(<< 0, 0, rate >>, acc, mag, GNSS_acceleration, GNSS_heading,
                    GNSS_heading_valid)
          /\ History(IF GNSS_heading_valid THEN "update_diff_GNSS" ELSE "update_compass")
          /\ scenario' = [phase  |-> "turn",
                          rate   |-> rate,
                          ticks  |-> scenario.ticks + 1,
                          passed |-> IF AbsInt(turn_rate) > HIGH_TURN_RATE
                                     THEN scenario.passed + 1 ELSE scenario.passed]
  /\ Quiescent
  /\ UNCHANGED other_vars

ScenarioLevelTick ==
  /\ \/ scenario.phase = "turn" /\ circling_state = CIRCLING
     \/ scenario.phase = "level" /\ scenario.ticks < HoldTicks
  /\ \E acc \in AccInputs, mag \in TrueMagInputs,
        GNSS_acceleration \in GNSSAccInputs, GNSS_heading \in HeadingInputs,
        GNSS_heading_valid \in BOOLEAN :
          /\ update(ZeroVector, acc, mag, GNSS_acceleration, GNSS_heading, GNSS_heading_valid)
          /\ History(IF GNSS_heading_valid THEN "update_diff_GNSS" ELSE "update_compass")
  /\ Quiescent
  /\ UNCHANGED other_vars
  /\ scenario' = [phase  |-> "level",
                  rate   |-> 0,
                  ticks  |-> IF scenario.phase = "turn" THEN 1 ELSE scenario.ticks + 1,
                  passed |-> (IF scenario.phase = "turn" THEN 0 ELSE scenario.passed)
                               + (IF AbsInt(turn_rate) < LOW_TURN_RATE THEN 1 ELSE 0)]

ScenarioNext == ScenarioTurnTick \/ ScenarioLevelTick \/ AttitudeSetupTick

ScenarioSpec == Init /\ [][ScenarioNext]_vars
\* ---------------------------------------------------------------------------
\* Flight observer (src/NAV_Algorithms/flight_observer.cpp), one tick of
\* update_every_10ms.  Values are integers; the gravity factors are scaled
\* to 1.
ONE_DIV_BY_GRAVITY_TIMES_2 == 1

RECIP_GRAVITY == 1

vertical_energy_tuning_factor == 1

Dot(a, b) == a[1] * b[1] + a[2] * b[2] + a[3] * b[3]

\* lines 47-49: the pressure path, run on every tick
PressurePath(pressure_altitude, ahrs_acceleration, IAS) ==
  LET kalman == KalmanVario_update(KalmanVario_pressure, pressure_altitude,
                                   ahrs_acceleration[DOWN])
      diff   == differentiator_respond(kinetic_energy_differentiator,
                                       IAS * IAS * ONE_DIV_BY_GRAVITY_TIMES_2)
  IN  [KalmanVario_pressure |-> kalman,
       kinetic_energy_differentiator |-> diff,
       vario_uncompensated_pressure |-> kalman.vario,
       speed_compensation_IAS |-> diff.output,
       averager_input |-> diff.output - kalman.vario]

\* lines 60-100: the GNSS path, run on a tick with a fix
GNSSPath(gnss_velocity, ahrs_acceleration, heading_vector, GNSS_negative_altitude, TAS, wind_average) ==
  LET decimator == decimator_respond(windspeed_decimator_100Hz_10Hz,
                                     VSub(gnss_velocity, VScale(heading_vector, TAS)))
      kalman  == KalmanVario_update_velocity(KalmanVario_GNSS, GNSS_negative_altitude,
                                             gnss_velocity[DOWN], ahrs_acceleration[DOWN])
      vario   == - kalman.vario
      air     == VSub(gnss_velocity, wind_average)
      air_velocity == << air[NORTH], air[EAST], kalman.vario >>
      acceleration == << ahrs_acceleration[NORTH], ahrs_acceleration[EAST],
                         kalman.acceleration_observed >>
      sc1     == Dot(air_velocity, acceleration) * RECIP_GRAVITY
      kn      == Kalman_V_A_update(Kalman_v_a_observer_N, air[NORTH],
                                   ahrs_acceleration[NORTH])
      ke      == Kalman_V_A_update(Kalman_v_a_observer_E, air[EAST],
                                   ahrs_acceleration[EAST])
      sc2     == ( kn.velocity * kn.acceleration + ke.velocity * ke.acceleration
                   + kalman.vario * kalman.acceleration_observed
                       * vertical_energy_tuning_factor ) * RECIP_GRAVITY
      energy  == ( air[NORTH] * air[NORTH] + air[EAST] * air[EAST]
                   + gnss_velocity[DOWN] * gnss_velocity[DOWN]
                       * vertical_energy_tuning_factor ) * ONE_DIV_BY_GRAVITY_TIMES_2
      diff    == differentiator_respond(specific_energy_differentiator, energy)
      sc3     == diff.output
      fusion  == fusioner_respond(GNSS_INS_speedcomp_fusioner,
                                  TruncDiv(sc1 + sc2, 2), sc3)
  IN  [windspeed_decimator_100Hz_10Hz |-> decimator,
       KalmanVario_GNSS |-> kalman,
       Kalman_v_a_observer_N |-> kn,
       Kalman_v_a_observer_E |-> ke,
       specific_energy_differentiator |-> diff,
       GNSS_INS_speedcomp_fusioner |-> fusion,
       vario_uncompensated_GNSS |-> vario,
       speed_compensation_INS_GNSS_1 |-> sc1,
       speed_compensation_kalman_2 |-> sc2,
       specific_energy |-> energy,
       speed_compensation_energy_3 |-> sc3,
       speed_compensation_GNSS |-> fusion.output,
       averager_input |-> vario + fusion.output,
       stepped |-> { "windspeed_decimator_100Hz_10Hz", "KalmanVario_GNSS",
                     "Kalman_v_a_observer_N", "Kalman_v_a_observer_E",
                     "specific_energy_differentiator",
                     "GNSS_INS_speedcomp_fusioner" }]

\* Sensitivity variants of the branch without a fix: the first feeds the GNSS
\* averager the sum used with a fix, the second clears the specific energy.
NoFixPath_Sum(vario_pressure, sc_IAS) ==
  [windspeed_decimator_100Hz_10Hz |-> windspeed_decimator_100Hz_10Hz,
   KalmanVario_GNSS |-> KalmanVario_GNSS,
   Kalman_v_a_observer_N |-> Kalman_v_a_observer_N,
   Kalman_v_a_observer_E |-> Kalman_v_a_observer_E,
   specific_energy_differentiator |-> specific_energy_differentiator,
   GNSS_INS_speedcomp_fusioner |-> GNSS_INS_speedcomp_fusioner,
   vario_uncompensated_GNSS |-> vario_pressure,
   speed_compensation_INS_GNSS_1 |-> speed_compensation_INS_GNSS_1,
   speed_compensation_kalman_2 |-> speed_compensation_kalman_2,
   specific_energy |-> specific_energy,
   speed_compensation_energy_3 |-> speed_compensation_energy_3,
   speed_compensation_GNSS |-> sc_IAS,
   averager_input |-> vario_pressure + sc_IAS,
   stepped |-> {}]

NoFixPath_ClearingEnergy(vario_pressure, sc_IAS) ==
  [windspeed_decimator_100Hz_10Hz |-> windspeed_decimator_100Hz_10Hz,
   KalmanVario_GNSS |-> KalmanVario_GNSS,
   Kalman_v_a_observer_N |-> Kalman_v_a_observer_N,
   Kalman_v_a_observer_E |-> Kalman_v_a_observer_E,
   specific_energy_differentiator |-> specific_energy_differentiator,
   GNSS_INS_speedcomp_fusioner |-> GNSS_INS_speedcomp_fusioner,
   vario_uncompensated_GNSS |-> vario_pressure,
   speed_compensation_INS_GNSS_1 |-> speed_compensation_INS_GNSS_1,
   speed_compensation_kalman_2 |-> speed_compensation_kalman_2,
   specific_energy |-> 0,
   speed_compensation_energy_3 |-> speed_compensation_energy_3,
   speed_compensation_GNSS |-> sc_IAS,
   averager_input |-> sc_IAS - vario_pressure,
   stepped |-> {}]

\* lines 51-57: without a fix the GNSS outputs are maintained with pressure
\* data and nothing else of the GNSS path is touched
NoFixPath(vario_pressure, sc_IAS) ==
  [windspeed_decimator_100Hz_10Hz |-> windspeed_decimator_100Hz_10Hz,
   KalmanVario_GNSS |-> KalmanVario_GNSS,
   Kalman_v_a_observer_N |-> Kalman_v_a_observer_N,
   Kalman_v_a_observer_E |-> Kalman_v_a_observer_E,
   specific_energy_differentiator |-> specific_energy_differentiator,
   GNSS_INS_speedcomp_fusioner |-> GNSS_INS_speedcomp_fusioner,
   vario_uncompensated_GNSS |-> vario_pressure,
   speed_compensation_INS_GNSS_1 |-> speed_compensation_INS_GNSS_1,
   speed_compensation_kalman_2 |-> speed_compensation_kalman_2,
   specific_energy |-> specific_energy,
   speed_compensation_energy_3 |-> speed_compensation_energy_3,
   speed_compensation_GNSS |-> sc_IAS,
   averager_input |-> sc_IAS - vario_pressure,
   stepped |-> {}]

update_every_10ms(gnss_velocity, ahrs_acceleration, heading_vector, GNSS_negative_altitude, pressure_altitude, TAS, IAS, wind_average, fix) ==
  LET p == PressurePath(pressure_altitude, ahrs_acceleration, IAS)
      g == IF ~ fix
           THEN NoFixPath(p.vario_uncompensated_pressure, p.speed_compensation_IAS)
           ELSE GNSSPath(gnss_velocity, ahrs_acceleration, heading_vector,
                         GNSS_negative_altitude, TAS, wind_average)
  IN  /\ KalmanVario_pressure' = p.KalmanVario_pressure
      /\ kinetic_energy_differentiator' = p.kinetic_energy_differentiator
      /\ vario_uncompensated_pressure' = p.vario_uncompensated_pressure
      /\ speed_compensation_IAS' = p.speed_compensation_IAS
      /\ vario_averager_pressure' = averager_respond(vario_averager_pressure,
                                                     p.averager_input)
      /\ windspeed_decimator_100Hz_10Hz' = g.windspeed_decimator_100Hz_10Hz
      /\ KalmanVario_GNSS' = g.KalmanVario_GNSS
      /\ Kalman_v_a_observer_N' = g.Kalman_v_a_observer_N
      /\ Kalman_v_a_observer_E' = g.Kalman_v_a_observer_E
      /\ specific_energy_differentiator' = g.specific_energy_differentiator
      /\ GNSS_INS_speedcomp_fusioner' = g.GNSS_INS_speedcomp_fusioner
      /\ vario_uncompensated_GNSS' = g.vario_uncompensated_GNSS
      /\ speed_compensation_INS_GNSS_1' = g.speed_compensation_INS_GNSS_1
      /\ speed_compensation_kalman_2' = g.speed_compensation_kalman_2
      /\ specific_energy' = g.specific_energy
      /\ speed_compensation_energy_3' = g.speed_compensation_energy_3
      /\ speed_compensation_GNSS' = g.speed_compensation_GNSS
      /\ vario_averager_GNSS' = averager_respond(vario_averager_GNSS, g.averager_input)
      /\ GNSS_fix_avaliable' = fix
      /\ stepped' = { "KalmanVario_pressure", "kinetic_energy_differentiator",
                      "vario_averager_pressure", "vario_averager_GNSS" }
                      \cup g.stepped

ObserverVelocityInputs == { << 0, 0, 0 >>, << 1, 0, -1 >> }

ObserverAccelerationInputs == { << 0, 0, 0 >>, << 1, 0, 2 >> }

HeadingVectorInputs == { << 1, 0, 0 >> }

AltitudeInputs == { 0, 1 }

AirspeedInputs == { 0, 1 }

TrueAirspeedInputs == { 1 }

WindInputs == { << 0, 0, 0 >> }

ObserverTick ==
  \E gnss_velocity \in ObserverVelocityInputs,
     ahrs_acceleration \in ObserverAccelerationInputs,
     heading_vector \in HeadingVectorInputs,
     GNSS_negative_altitude \in AltitudeInputs, pressure_altitude \in AltitudeInputs,
     TAS \in TrueAirspeedInputs, IAS \in AirspeedInputs,
     wind_average \in WindInputs, fix \in BOOLEAN :
       /\ update_every_10ms(gnss_velocity, ahrs_acceleration, heading_vector,
                            GNSS_negative_altitude, pressure_altitude, TAS, IAS,
                            wind_average, fix)
       /\ UNCHANGED << ahrs_vars, history_vars, scenario, formatter_vars >>

\* -9.81f, the acceleration reset hands to the two vertical filters
GRAVITY == -10

\* flight_observer_t::reset: restart the two vertical Kalman filters
reset(pressure_negative_altitude, GNSS_negative_altitude) ==
  /\ KalmanVario_GNSS' = KalmanVario_reset(GNSS_negative_altitude, GRAVITY)
  /\ KalmanVario_pressure' = KalmanVario_reset(pressure_negative_altitude, GRAVITY)
  /\ stepped' = {}
  /\ UNCHANGED << Kalman_v_a_observer_N, Kalman_v_a_observer_E,
                  kinetic_energy_differentiator, specific_energy_differentiator,
                  windspeed_decimator_100Hz_10Hz, GNSS_INS_speedcomp_fusioner,
                  vario_averager_pressure, vario_averager_GNSS,
                  vario_uncompensated_pressure, vario_uncompensated_GNSS,
                  speed_compensation_IAS, speed_compensation_GNSS,
                  gnss_output_vars, GNSS_fix_avaliable >>

ObserverResetTick ==
  \E pressure_negative_altitude \in AltitudeInputs,
     GNSS_negative_altitude \in AltitudeInputs :
       /\ reset(pressure_negative_altitude, GNSS_negative_altitude)
       /\ UNCHANGED << ahrs_vars, history_vars, scenario, formatter_vars >>

ObserverNext == ObserverTick \/ ObserverResetTick

\* the observer runs beside one configuration of the AHRS
ObserverInit == FlightInit /\ body2nav = get_rotation_matrix(attitude)

ObserverSpec == ObserverInit /\ [][ObserverNext]_vars

\* ---------------------------------------------------------------------------
\* NMEA formatter (src/Output_Formatter/NMEA_format.cpp).  A text is the
\* sequence of its character codes, without the terminating NUL; a character
\* is its code, as in C, so that digit arithmetic like degree / 10 + '0' is
\* the arithmetic of the source.  The buffer is the sequence of its bytes from
\* the first one to the last one a call has written, the NULs among them; a
\* call overwrites the bytes it writes and leaves the others as they are.  The
\* bytes behind the last one written are what the construction of the buffer
\* left there, and no call reads them.  A pointer into the buffer is the
\* sequence of the bytes from the one it points at on.  An angle is its sign,
\* its whole degrees and the rest in 1e-6 arc minutes; speeds are counted in
\* mm/s and headings in 1e-4 rad.
Char ==
  [NUL |-> 0, LF |-> 10, CR |-> 13, dollar |-> 36, star |-> 42, comma |-> 44,
   minus |-> 45, dot |-> 46, zero |-> 48, one |-> 49, A |-> 65, B |-> 66,
   E |-> 69, H |-> 72, M |-> 77, N |-> 78, P |-> 80, R |-> 82, S |-> 83,
   T |-> 84, V |-> 86, W |-> 87, Y |-> 89, m |-> 109]

\* HEX[] = "0123456789ABCDEF", indexed from 1
HEX == << 48, 49, 50, 51, 52, 53, 54, 55, 56, 57, 65, 66, 67, 68, 69, 70 >>

hex4(data) == HEX[data + 1]

\* GPRMC[] = "$GPRMC,"
GPRMC == << 36, 71, 80, 82, 77, 67, 44 >>

MinutesPerDegree == 60

MicroPerMinute == 1000000

\* an angle of d degrees, m minutes and f millionths of a minute
Angle(d, m, f) == [sign |-> 1, degree |-> d, minutes |-> m * MicroPerMinute + f]

Negative(angle) == [angle EXCEPT !.sign = -1]

\* angle > 0.0f
IsPositive(angle) == angle.sign > 0 /\ (angle.degree > 0 \/ angle.minutes > 0)

\* bit k of a byte
Bit(byte, k) == (byte \div (2 ^ k)) % 2

\* the character at index i of a NUL-terminated text (indices from 1)
At(line, i) == IF i <= Len(line) THEN line[i] ELSE Char.NUL

\* "*p++ = ..." for each of the bytes, from index at on: the bytes written
\* replace what was there, the bytes behind them stay
Store(memory, at, bytes) ==
  LET last == at + Len(bytes) - 1
      size == IF Len(memory) > last THEN Len(memory) ELSE last
  IN  [i \in 1..size |->
         IF i >= at /\ i <= last THEN bytes[i - at + 1] ELSE memory[i]]

\* the index where the scan "for( p=line+1; *p && *p !='*'; ++p)" stops:
\* the first NUL or '*' after the first character
ScanEnd(line) ==
  LET stops == { i \in 2..(Len(line) + 1) :
                   At(line, i) = Char.NUL \/ At(line, i) = Char.star }
  IN  CHOOSE i \in stops : \A j \in stops : i <= j

\* "checksum ^= *p" over the characters the scan passed before it stopped
\* at index p: bit k of the result is the parity of bit k of the characters
ScanChecksum(line, p) ==
  LET parity(k) == Cardinality({ i \in 2..(p - 1) : Bit(line[i], k) = 1 }) % 2
  IN  parity(0) + 2 * parity(1) + 4 * parity(2) + 8 * parity(3)
        + 16 * parity(4) + 32 * parity(5) + 64 * parity(6) + 128 * parity(7)

\* NMEA_checksum: test a line for valid NMEA checksum
NMEA_checksum(line) ==
  IF At(line, 1) # Char.dollar
  THEN FALSE
  ELSE LET p == ScanEnd(line)
           checksum == ScanChecksum(line, p)
       IN  /\ At(line, p) = Char.star
           /\ hex4(checksum \div 16) = At(line, p + 1)
           /\ hex4(checksum % 16) = At(line, p + 2)
           /\ At(line, p + 3) = Char.NUL

\* NMEA_append_tail: add end delimiter, checksum and CR+LF.  p[0] .. p[5]
\* are written where the scan stopped; what lies behind them stays.
NMEA_append_tail(line) ==
  IF At(line, 1) # Char.dollar
  THEN line
  ELSE LET p == ScanEnd(line)
           checksum == ScanChecksum(line, p)
       IN  Store(line, p,
                 << Char.star, hex4(checksum \div 16), hex4(checksum % 16),
                    Char.CR, Char.LF, Char.NUL >>)

\* a formatter writes a sentence body and its NUL at index at of the buffer
\* and NMEA_append_tail completes the sentence there: the buffer afterwards
\* and the index of the byte NMEA_append_tail returns a pointer to, "p+5"
Sentence(string, at, body) ==
  LET written == Store(string, at, body \o << Char.NUL >>)
      line    == SubSeq(written, at, Len(written))
  IN  [string |-> SubSeq(written, 1, at - 1) \o NMEA_append_tail(line),
       next   |-> at + ScanEnd(line) + 4]

\* two characters "value / 10 + '0'", "value % 10 + '0'"
TwoDigits(value) == << (value \div 10) + Char.zero, (value % 10) + Char.zero >>

\* angle_format: append an angle in ASCII
angle_format(angle, posc, negc) ==
  LET pos     == IsPositive(angle)
      degree  == angle.degree
      minutes == angle.minutes
      min     == minutes \div MicroPerMinute
      rest    == minutes % MicroPerMinute
      min5    == (rest + 5) \div 10
  IN  TwoDigits(degree) \o TwoDigits(min) \o << Char.dot >>
        \o << ((min5 \div 10000) % 10) + Char.zero,
              ((min5 \div 1000) % 10) + Char.zero,
              ((min5 \div 100) % 10) + Char.zero,
              ((min5 \div 10) % 10) + Char.zero,
              (min5 % 10) + Char.zero >>
        \o << Char.comma, IF pos THEN posc ELSE negc >>

\* MPS_TO_NMPH = 1.944, times 1000
MPS_TO_NMPH == 1944

\* 6.2832 rad in units of 1e-4 rad
TwoPi == 62832

\* four characters "nnn.n" of a value counted in tenths
TenthsField(value) ==
  << (value \div 1000) + Char.zero,
     ((value % 1000) \div 100) + Char.zero,
     ((value % 100) \div 10) + Char.zero,
     Char.dot,
     (value % 10) + Char.zero >>

\* knots = (unsigned)(speed_motion * MPS_TO_NMPH * 10.0f + 0.5f)
Knots(speed_motion) == (speed_motion * MPS_TO_NMPH + 50000) \div 100000

\* angle_10 = true_track * 10.0 + 0.5, true_track wrapped by 6.2832 if negative
TrackTenths(heading_motion) ==
  LET true_track == IF heading_motion < 0 THEN heading_motion + TwoPi
                    ELSE heading_motion
  IN  TruncDiv(true_track * 10 + 5000, 10000)

\* format_RMC: time, position, groundspeed, track data
format_RMC(coordinates) ==
  GPRMC
    \o TwoDigits(coordinates.hour) \o TwoDigits(coordinates.minute)
    \o TwoDigits(coordinates.second)
    \o << Char.dot, Char.zero, Char.zero, Char.comma,
          IF coordinates.sat_fix_type # 0 THEN Char.A ELSE Char.V, Char.comma >>
    \o angle_format(coordinates.latitude, Char.N, Char.S) \o << Char.comma >>
    \o angle_format(coordinates.longitude, Char.E, Char.W) \o << Char.comma >>
    \o TenthsField(Knots(coordinates.speed_motion)) \o << Char.comma >>
    \o TenthsField(TrackTenths(coordinates.heading_motion)) \o << Char.comma >>
    \o TwoDigits(coordinates.day) \o TwoDigits(coordinates.month)
    \o TwoDigits(coordinates.year % 100)
    \o << Char.comma, Char.comma, Char.comma, Char.A >>

\* format_integer: the decimal digits of value, the most significant first
RECURSIVE format_integer(_)
format_integer(value) ==
  IF value < 10
  THEN << value + Char.zero >>
  ELSE format_integer(value \div 10) \o format_integer(value % 10)

\* integer_to_ascii_2_decimals: exactly two digits after the decimal point
integer_to_ascii_2_decimals(number) ==
  LET n == AbsInt(number)
  IN  (IF number < 0 THEN << Char.minus >> ELSE << >>)
        \o format_integer(n \div 100)
        \o << Char.dot, HEX[((n \div 10) % 10) + 1], HEX[(n % 10) + 1] >>

\* integer_to_ascii_1_decimal: one digit after the decimal point
integer_to_ascii_1_decimal(number) ==
  LET n == AbsInt(number)
  IN  (IF number < 0 THEN << Char.minus >> ELSE << >>)
        \o format_integer(n \div 10)
        \o << Char.dot, HEX[(n % 10) + 1] >>

\* GPGGA[] = "$GPGGA,"
GPGGA == << 36, 71, 80, 71, 71, 65, 44 >>

\* "uint32_t altitude_msl_dm = coordinates.position.e[DOWN] * -10.0": the
\* conversion of a double to uint32_t, for a value in whole decimetres, as
\* its quotient and remainder by 10000.  Below zero the conversion is
\* undefined: a build gives zero (a conversion that saturates) or the value
\* plus 2^32 (one that wraps), and 2^32 = 429496 * 10000 + 7296.
ToUint32(value) ==
  IF value >= 0
  THEN { [quotient |-> value \div 10000, remainder |-> value % 10000] }
  ELSE { [quotient |-> 0, remainder |-> 0],
         [quotient  |-> 429496 + ((7296 + value) \div 10000),
          remainder |-> (7296 + value) % 10000] }

\* format_GGA: position report, sat number and GEO separation.  The position
\* is counted in decimetres; altitude_msl_dm is what the conversion of
\* position[DOWN] * -10.0 to uint32_t gave, and a character keeps the low
\* eight bits of what is assigned to it.
format_GGA(coordinates, altitude_msl_dm) ==
  LET geo_sep == AbsInt(coordinates.geo_sep_dm)
  IN  GPGGA
        \o TwoDigits(coordinates.hour) \o TwoDigits(coordinates.minute)
        \o TwoDigits(coordinates.second)
        \o << Char.dot, Char.zero, Char.zero, Char.comma >>
        \o angle_format(coordinates.latitude, Char.N, Char.S) \o << Char.comma >>
        \o angle_format(coordinates.longitude, Char.E, Char.W) \o << Char.comma >>
        \o << IF coordinates.sat_fix_type >= 0 THEN Char.one ELSE Char.zero,
              Char.comma >>
        \o TwoDigits(coordinates.SATS_number)
        \o << Char.comma, Char.zero, Char.dot, Char.zero, Char.comma >>
        \o << (altitude_msl_dm.quotient + Char.zero) % 256 >>
        \o TenthsField(altitude_msl_dm.remainder)
        \o << Char.comma, Char.M, Char.comma >>
        \o (IF coordinates.geo_sep_dm < 0 THEN << Char.minus >> ELSE << >>)
        \o TenthsField(geo_sep)
        \o << Char.comma, Char.m, Char.comma, Char.comma >>

\* RAD_TO_DEGREE_10 = 572.958, times 1000
RAD_TO_DEGREE_10 == 572958

\* half of 6.2832 rad, in units of 1e-4 rad
Pi == TwoPi \div 2

\* (int)(angle * RAD_TO_DEGREE_10 + 0.5) for an angle in 1e-4 rad: the
\* product is split into thousands so that it stays within 32 bits, and the
\* conversion to int cuts towards zero
Degree10(angle) ==
  LET whole == RAD_TO_DEGREE_10 \div 1000
      part  == RAD_TO_DEGREE_10 % 1000
      a     == AbsInt(angle)
      k     == (a * whole) + (((a * part) - 5000000) \div 1000)
  IN  IF angle >= 0
      THEN ((a * whole) + (((a * part) + 5000000) \div 1000)) \div 10000
      ELSE IF k < 0 THEN 0 ELSE - (k \div 10000)

\* a float with the sign of its zero: negating 0.0f gives -0.0f
Float(value) == [value |-> value, negative |-> value < 0]

Negate(x) == [value |-> - x.value, negative |-> ~ x.negative]

\* ATAN2 away from the axes, in 1e-4 rad: << y, x, atan2f(y, x) >>
AtanTable == { << -4, -3, -22143 >>, << -4, 3, -9273 >>, << 4, -3, 22143 >>, << 4, 3, 9273 >> }

\* ATAN2( y, x) in 1e-4 rad, with the results atan2f gives on the axes
\* and at the signed zeros
ATAN2(y, x) ==
  IF y.value = 0
  THEN IF x.negative
       THEN (IF y.negative THEN - Pi ELSE Pi)
       ELSE 0
  ELSE IF x.value = 0
       THEN (IF y.value < 0 THEN - (Pi \div 2) ELSE Pi \div 2)
       ELSE (CHOOSE t \in AtanTable : t[1] = y.value /\ t[2] = x.value)[3]

\* GPMWV[] = "$GPMWV,"
GPMWV == << 36, 71, 80, 77, 87, 86, 44 >>

\* format_MWV: wind direction and speed, the wind counted in m/s
format_MWV(wind_north, wind_east) ==
  LET direction == ATAN2(Negate(Float(wind_east)), Negate(Float(wind_north)))
      angle_10  == IF Degree10(direction) < 0 THEN Degree10(direction) + 3600
                   ELSE Degree10(direction)
      wind      == ISqrt(100 * (wind_north * wind_north + wind_east * wind_east))
  IN  GPMWV
        \o TenthsField(angle_10) \o << Char.comma, Char.T, Char.comma >>
        \o TenthsField(wind) \o << Char.comma, Char.M, Char.comma, Char.A >>

\* POV[] = "$POV"
POV == << 36, 80, 79, 86 >>

\* format_POV: TAS, pressures and TEK variometer.  Speeds are counted in
\* mm/s, pressures in Pa, the voltage in mV, the humidity in 1e-2 percent and
\* the temperature in 1e-2 degrees.
format_POV(TAS, pabs, pitot, TEK_vario, voltage, airdata_available, humidity, temperature) ==
  POV
    \o << Char.comma, Char.E, Char.comma >>
    \o integer_to_ascii_2_decimals(TruncDiv(TEK_vario, 10))
    \o << Char.comma, Char.P, Char.comma >>
    \o integer_to_ascii_2_decimals(pabs)
    \o << Char.comma, Char.R, Char.comma >>
    \o integer_to_ascii_2_decimals(IF pitot < 0 THEN 0 ELSE pitot)
    \o << Char.comma, Char.S, Char.comma >>
    \o integer_to_ascii_2_decimals(TruncDiv(TAS * 360, 1000))
    \o << Char.comma, Char.V, Char.comma >>
    \o integer_to_ascii_1_decimal(TruncDiv(voltage, 100))
    \o (IF airdata_available
        THEN << Char.comma, Char.H, Char.comma >>
               \o integer_to_ascii_2_decimals(humidity)
               \o << Char.comma, Char.T, Char.comma >>
               \o integer_to_ascii_2_decimals(temperature)
        ELSE << >>)

\* format_POV_RNY: roll, nick and yaw angles, given in 1e-4 rad
format_POV_RNY(roll, nick, yaw) ==
  POV
    \o << Char.comma, Char.B, Char.comma >>
    \o integer_to_ascii_1_decimal(Degree10(roll))
    \o << Char.comma, Char.N, Char.comma >>
    \o integer_to_ascii_1_decimal(Degree10(nick))
    \o << Char.comma, Char.Y, Char.comma >>
    \o integer_to_ascii_1_decimal(Degree10(IF yaw < 0 THEN yaw + TwoPi ELSE yaw))

\* HCHDT[] = "$HCHDT,"
HCHDT == << 36, 72, 67, 72, 68, 84, 44 >>

\* format_HCHDT: the true heading; heading = (int)(true_heading * 573.0f)
format_HCHDT(true_heading) ==
  LET tenths  == TruncDiv(true_heading * 573, 10000)
      heading == IF tenths < 0 THEN tenths + 3600 ELSE tenths
  IN  HCHDT \o integer_to_ascii_1_decimal(heading) \o << Char.comma, Char.T >>

\* format_NMEA_string: the six sentences, each completed by NMEA_append_tail
\* and written where the one before ended, and the length of the whole;
\* altitude_msl_dm is what the conversion in format_GGA gave
format_NMEA_string(output_data, buf, altitude_msl_dm) ==
  LET RMC == Sentence(buf.string, 1, format_RMC(output_data.c))
      GGA == Sentence(RMC.string, RMC.next, format_GGA(output_data.c, altitude_msl_dm))
      MWV == Sentence(GGA.string, GGA.next,
                      format_MWV(output_data.wind_average[NORTH],
                                 output_data.wind_average[EAST]))
      POV_E == Sentence(MWV.string, MWV.next,
                 format_POV(output_data.TAS, output_data.m.static_pressure,
                            output_data.m.pitot_pressure, output_data.vario,
                            output_data.m.supply_voltage,
                            output_data.m.outside_air_humidity > 0,
                            output_data.m.outside_air_humidity,
                            output_data.m.outside_air_temperature))
      RNY == Sentence(POV_E.string, POV_E.next,
                      format_POV_RNY(output_data.euler.r, output_data.euler.n,
                                     output_data.euler.y))
      HDT == Sentence(RNY.string, RNY.next, format_HCHDT(output_data.euler.y))
  IN  [string |-> HDT.string, length |-> HDT.next - 1]

\* the longest sentence body handed to NMEA_append_tail beside the formatters
MaxBody == 2

BodyCharacters == { Char.A, Char.star }

RECURSIVE Texts(_)
Texts(n) ==
  IF n = 0 THEN { << >> }
  ELSE Texts(n - 1)
         \cup { Append(t, c) : t \in { u \in Texts(n - 1) : Len(u) = n - 1 },
                               c \in BodyCharacters }

BodyInputs == { << Char.dollar >> \o t : t \in Texts(MaxBody) } \cup { << Char.A >> }

\* angles at which the double arithmetic of angle_format is exact to the last
\* digit it prints: the equator, fractions of a minute that round down and
\* up, north and south, and longitudes of three digits, east and west
AngleInputs ==
  { Angle(0, 0, 0), Angle(48, 59, 4), Negative(Angle(7, 59, 999996)),
    Angle(100, 0, 0), Negative(Angle(120, 0, 0)), Angle(180, 0, 0) }

MaxLatitude == 90

MaxLongitude == 180

\* the magnitude of the angle is at most limit degrees
Within(angle, limit) ==
  angle.degree < limit \/ (angle.degree = limit /\ angle.minutes = 0)

Latitudes == { a \in AngleInputs : Within(a, MaxLatitude) }

Longitudes == { a \in AngleInputs : Within(a, MaxLongitude) }

\* the coordinates of the RMC example: 12:34:56, 48.5 N, 9.25 E, 50 m/s,
\* heading 1.57 rad, 1 Feb 2024, fix; everything else zero
RMCExample ==
  [hour |-> 12, minute |-> 34, second |-> 56,
   latitude |-> Angle(48, 30, 0), longitude |-> Angle(9, 15, 0),
   speed_motion |-> 50000, heading_motion |-> 15700,
   day |-> 1, month |-> 2, year |-> 2024, sat_fix_type |-> 1,
   SATS_number |-> 0, position |-> ZeroVector, geo_sep_dm |-> 0]

\* the example, and a position south and west without a fix, at rest and
\* heading the other way, on another day
CoordinateInputs ==
  { RMCExample,
    [RMCExample EXCEPT !.hour = 23, !.minute = 59, !.second = 59,
                       !.latitude = Negative(Angle(33, 59, 999996)),
                       !.longitude = Negative(Angle(120, 0, 0)),
                       !.speed_motion = 0, !.heading_motion = -15700,
                       !.day = 31, !.month = 12, !.year = 1999,
                       !.sat_fix_type = 0] }

\* format_RMC on the buffer, then NMEA_append_tail on it
FormatRMCTick ==
  \E coordinates \in CoordinateInputs :
    /\ NMEA_buf' = [NMEA_buf EXCEPT !.string =
                       Sentence(NMEA_buf.string, 1, format_RMC(coordinates)).string]
    /\ nmea_call' = [function |-> "format_RMC", input |-> coordinates]
    /\ UNCHANGED << ahrs_vars, history_vars, scenario, observer_vars >>

\* angle_format on a latitude or a longitude, with p at the start of the
\* buffer: twelve characters and no NUL behind them
AngleFormatTick ==
  \E kind \in { "latitude", "longitude" } :
    \E angle \in (IF kind = "latitude" THEN Latitudes ELSE Longitudes) :
      /\ NMEA_buf' = [NMEA_buf EXCEPT !.string =
                         Store(NMEA_buf.string, 1,
                               IF kind = "latitude"
                               THEN angle_format(angle, Char.N, Char.S)
                               ELSE angle_format(angle, Char.E, Char.W))]
      /\ nmea_call' = [function |-> "angle_format",
                       input |-> [angle |-> angle, kind |-> kind]]
      /\ UNCHANGED << ahrs_vars, history_vars, scenario, observer_vars >>

\* NMEA_append_tail on a sentence body copied to the start of the buffer
AppendTailTick ==
  \E body \in BodyInputs :
    /\ NMEA_buf' = [NMEA_buf EXCEPT !.string =
                       Sentence(NMEA_buf.string, 1, body).string]
    /\ nmea_call' = [function |-> "NMEA_append_tail", input |-> body]
    /\ UNCHANGED << ahrs_vars, history_vars, scenario, observer_vars >>

\* a position south and west at 1234.5 m with twelve satellites and a
\* negative GEO separation
SouthWest ==
  [RMCExample EXCEPT !.latitude = Negative(Angle(33, 59, 999996)),
                     !.longitude = Negative(Angle(120, 0, 0)),
                     !.sat_fix_type = 0, !.SATS_number = 12,
                     !.position = << 0, 0, -12345 >>, !.geo_sep_dm = -475]

\* the example 2.5 m below sea level
BelowSeaLevel == [RMCExample EXCEPT !.position = << 0, 0, 25 >>]

\* TAS, vario and the measurements m: all zero, a flight with air data, and
\* one with a negative pitot pressure
AirInputs ==
  { [TAS |-> 0, vario |-> 0,
     m |-> [static_pressure |-> 0, pitot_pressure |-> 0, supply_voltage |-> 0,
            outside_air_humidity |-> 0, outside_air_temperature |-> 0]],
    [TAS |-> 30000, vario |-> -2500,
     m |-> [static_pressure |-> 101325, pitot_pressure |-> 550,
            supply_voltage |-> 12500, outside_air_humidity |-> 5000,
            outside_air_temperature |-> -325]],
    [TAS |-> 500, vario |-> 1500,
     m |-> [static_pressure |-> 95000, pitot_pressure |-> -3,
            supply_voltage |-> 9000, outside_air_humidity |-> 0,
            outside_air_temperature |-> 2050]] }

OutputData(c, w, a, e) ==
  [c |-> c, wind_average |-> w, TAS |-> a.TAS, vario |-> a.vario, m |-> a.m,
   euler |-> e]

\* the example with everything else zero; a flight south and west with wind,
\* air data and a banked attitude; and the example below sea level in a wind
\* from the north with a negative pitot pressure, banked and heading the other
\* way.  Wind in m/s, roll, nick and yaw in 1e-4 rad.
OutputDataInputs ==
  LET air(TAS) == CHOOSE a \in AirInputs : a.TAS = TAS
  IN  { OutputData(RMCExample, ZeroVector, air(0), [r |-> 0, n |-> 0, y |-> 0]),
        OutputData(SouthWest, << 3, 4, 0 >>, air(30000),
                   [r |-> 1000, n |-> -500, y |-> 15700]),
        OutputData(BelowSeaLevel, << -5, 0, 0 >>, air(500),
                   [r |-> -1000, n |-> 0, y |-> -15700]) }

\* format_NMEA_string on an output_data_t: the buffer holds the six sentences
\* and their length
FormatNMEAStringTick ==
  \E output_data \in OutputDataInputs :
    \E altitude_msl_dm \in ToUint32(- output_data.c.position[DOWN]) :
      /\ NMEA_buf' = format_NMEA_string(output_data, NMEA_buf, altitude_msl_dm)
      /\ nmea_call' = [function |-> "format_NMEA_string", input |-> output_data]
      /\ UNCHANGED << ahrs_vars, history_vars, scenario, observer_vars >>

NmeaNext == FormatRMCTick \/ AngleFormatTick \/ AppendTailTick \/ FormatNMEAStringTick

NmeaSpec == ObserverInit /\ [][NmeaNext]_vars

\* ---------------------------------------------------------------------------
\* Properties
\* ---------------------------------------------------------------------------
Called(cs, name) == \E i \in 1..Len(cs) : cs[i] = name

Ticked == handler # "AHRS_type"

\* the P term of the tick just made: P_GAIN * body2nav.reverse_map(nav_correction)
PTerm == VScale(ReverseMap(body2nav, nav_correction'), P_GAIN)

\* C1: the circling counter always lies in [0, CIRCLE_LIMIT], and the circling
\* state is a function of the counter alone: 0 is STRAIGHT_FLIGHT,
\* CIRCLE_LIMIT is CIRCLING, every value between is TRANSITION.
C1_CounterBoundedStateFromCounter ==
  /\ circling_counter \in 0..CIRCLE_LIMIT
  /\ circling_counter = 0 => circling_state = STRAIGHT_FLIGHT
  /\ circling_counter = CIRCLE_LIMIT => circling_state = CIRCLING
  /\ (0 < circling_counter /\ circling_counter < CIRCLE_LIMIT)
        => circling_state = TRANSITION

\* a tick that found the counter at CIRCLE_LIMIT with the turn rate still high
C1_Witness ==
  /\ Ticked
  /\ turn_rate_abs > HIGH_TURN_RATE
  /\ old_circle_state = CIRCLING
  /\ circling_counter = CIRCLE_LIMIT

\* C2: one evaluation of the state machine raises the counter by one iff it is
\* below CIRCLE_LIMIT and the turn-rate magnitude is strictly above
\* HIGH_TURN_RATE, then lowers it by one iff it is above 0 and the magnitude is
\* strictly below LOW_TURN_RATE; a magnitude equal to a threshold moves nothing.
C2_CounterStep ==
  [][ Called(calls', "update_circling_state") =>
      LET r == AbsInt(turn_rate)
          c == circling_counter
      IN  /\ (c < CIRCLE_LIMIT /\ r > HIGH_TURN_RATE) => circling_counter' = c + 1
          /\ (c > 0 /\ r < LOW_TURN_RATE /\ ~(r > HIGH_TURN_RATE))
                => circling_counter' = c - 1
          /\ (~(c < CIRCLE_LIMIT /\ r > HIGH_TURN_RATE) /\ ~(c > 0 /\ r < LOW_TURN_RATE))
                => circling_counter' = c
          /\ r = HIGH_TURN_RATE => circling_counter' <= c
          /\ r = LOW_TURN_RATE => circling_counter' >= c ]_vars

\* a tick that read a magnitude equal to HIGH_TURN_RATE and left the counter at 0
C2_Witness ==
  /\ Ticked
  /\ turn_rate_abs = HIGH_TURN_RATE
  /\ old_circle_state = STRAIGHT_FLIGHT
  /\ circling_counter = 0

\* C3 as stated: with the yaw rate stepped from 0 to above HIGH_TURN_RATE and
\* held, the state is CIRCLING after CIRCLE_LIMIT ticks; with the rate stepped
\* back to 0 the state is STRAIGHT_FLIGHT after CIRCLE_LIMIT more ticks.
C3_AsStated ==
  /\ (scenario.phase = "turn" /\ scenario.ticks = CIRCLE_LIMIT)
        => circling_state = CIRCLING
  /\ (scenario.phase = "level" /\ scenario.ticks = CIRCLE_LIMIT)
        => circling_state = STRAIGHT_FLIGHT

\* C3: the state machine reads the averaged turn rate before the tick feeds the
\* averager, so in the turn the state is CIRCLING exactly when CIRCLE_LIMIT
\* ticks have begun with the averaged magnitude above HIGH_TURN_RATE, which is
\* later than CIRCLE_LIMIT ticks after the step; after the step back the state
\* is STRAIGHT_FLIGHT exactly when CIRCLE_LIMIT ticks have begun with the
\* averaged magnitude below LOW_TURN_RATE, again later than CIRCLE_LIMIT ticks.
C3_TurnEntryAndExit ==
  /\ scenario.phase = "turn" =>
        /\ circling_state = CIRCLING <=> scenario.passed >= CIRCLE_LIMIT
        /\ scenario.ticks <= CIRCLE_LIMIT => circling_state # CIRCLING
  /\ scenario.phase = "level" =>
        /\ circling_state = STRAIGHT_FLIGHT <=> scenario.passed >= CIRCLE_LIMIT
        /\ scenario.ticks <= CIRCLE_LIMIT => circling_state # STRAIGHT_FLIGHT

\* the turn has been entered and left again, each later than CIRCLE_LIMIT ticks
C3_Witness ==
  /\ scenario.phase = "level"
  /\ scenario.ticks > CIRCLE_LIMIT
  /\ circling_state = STRAIGHT_FLIGHT

\* C4 as stated: a DGNSS tick that changes the gyro integrator began in
\* STRAIGHT_FLIGHT.
C4_AsStated ==
  [][ (handler' = "update_diff_GNSS" /\ gyro_integrator' # gyro_integrator)
        => circling_state = STRAIGHT_FLIGHT ]_vars

\* C4: a DGNSS tick that changes the gyro integrator has evaluated the state
\* to STRAIGHT_FLIGHT on that tick; the state before the tick need not be
\* STRAIGHT_FLIGHT.
C4_IntegratorChangeDGNSS ==
  [][ (handler' = "update_diff_GNSS" /\ gyro_integrator' # gyro_integrator)
        => circling_state' = STRAIGHT_FLIGHT ]_vars

\* a DGNSS tick that went from TRANSITION to STRAIGHT_FLIGHT with a correction
C4_Witness ==
  /\ handler = "update_diff_GNSS"
  /\ old_circle_state = TRANSITION
  /\ circling_state = STRAIGHT_FLIGHT
  /\ nav_correction # ZeroVector

\* C5: handle_magnetic_calibration runs, and the stored calibration or the
\* expected Earth induction changes, only on a tick that goes from CIRCLING to
\* TRANSITION with automatic magnetic calibration enabled.
C5_CommitOnlyOnExitEdge ==
  [][ ( \/ Called(calls', "handle_magnetic_calibration")
        \/ compass_calibration' # compass_calibration
        \/ expected_nav_induction' # expected_nav_induction
        \/ magnetic_control_gain' # magnetic_control_gain )
        => /\ automatic_magnetic_calibration
           /\ circling_state = CIRCLING
           /\ circling_state' = TRANSITION ]_vars

\* a commit has installed a calibration
C5_Witness ==
  /\ Called(calls, "handle_magnetic_calibration")
  /\ circling_state = TRANSITION
  /\ isCalibrationDone(compass_calibration)

\* the tick is a commit: update() saw the edge from CIRCLING to TRANSITION
CommitTick == Called(calls', "handle_magnetic_calibration")

\* the commit of this tick takes over the estimated Earth induction
EarthInductionTaken ==
  /\ EarthSamples(earth_induction_data_collector) > 0
  /\ automatic_earth_field_parameters
  /\ ISqrt(get_variance(earth_induction_data_collector))
        < INDUCTION_STD_DEVIATION_LIMIT

\* C6 as stated: a commit after circling with fed collectors sends exactly one
\* calibration report.
C6_AsStated ==
  [][ (CommitTick /\ EarthSamples(earth_induction_data_collector) > 0)
        => Len(report_out') = 1 ]_vars

\* C6: a tick sends at most one calibration report, only a commit sends one,
\* and a commit sends it exactly when it installed a new sensor calibration or
\* took over the estimated Earth induction; a commit that changed neither
\* sends none.
C6_ReportOnlyWhenChanged ==
  [][ /\ Len(report_out') <= 1
      /\ report_out' # << >> => CommitTick
      /\ CommitTick =>
           ( report_out' # << >> <=>
               (compass_calibration' # compass_calibration \/ EarthInductionTaken) ) ]_vars

\* a commit after circling with fed collectors that sent no report
C6_Witness ==
  /\ Called(calls, "handle_magnetic_calibration")
  /\ report_out = << >>
  /\ isCalibrationDone(compass_calibration)

\* C7: the data collectors are fed only on a tick whose evaluated state is
\* CIRCLING and whose nav_correction magnitude is strictly below
\* NAV_CORRECTION_LIMIT; on every other tick no collector grows.
C7_FeedOnlyWhenCirclingAndSettled ==
  [][ ( \/ Called(calls', "feed_magnetic_induction_observer")
        \/ \E i \in 1..3 : mag_calibration_data_collector'[i].n
                             > mag_calibration_data_collector[i].n
        \/ EarthSamples(earth_induction_data_collector')
             > EarthSamples(earth_induction_data_collector) )
        => /\ circling_state' = CIRCLING
           /\ NormSq(nav_correction') < NAV_CORRECTION_LIMIT * NAV_CORRECTION_LIMIT ]_vars

\* a tick in CIRCLING with a settled loop has fed the collectors
C7_Witness ==
  /\ Called(calls, "feed_magnetic_induction_observer")
  /\ circling_state = CIRCLING
  /\ mag_calibration_data_collector[1].n > 0
  /\ EarthSamples(earth_induction_data_collector) > 0

\* C8 as stated: in magnetometer and acceleration-only mode every tick adds
\* the P term to the gyro integrator, whatever the circling state.
C8_AsStated ==
  [][ handler' \in { "update_compass", "update_ACC_only" }
        => gyro_integrator' = VAdd(gyro_integrator, PTerm) ]_vars

\* C8: in acceleration-only mode every tick adds the P term to the gyro
\* integrator, whatever the circling state; in magnetometer mode a tick adds it
\* when the evaluated state is STRAIGHT_FLIGHT or TRANSITION and leaves the
\* integrator alone when it is CIRCLING.
C8_IntegratorAccOnlyAndCompass ==
  [][ /\ handler' = "update_ACC_only"
          => gyro_integrator' = VAdd(gyro_integrator, PTerm)
      /\ (handler' = "update_compass" /\ circling_state' = CIRCLING)
          => gyro_integrator' = gyro_integrator
      /\ (handler' = "update_compass" /\ circling_state' # CIRCLING)
          => gyro_integrator' = VAdd(gyro_integrator, PTerm) ]_vars

\* an acceleration-only tick in CIRCLING with a correction to integrate
C8_Witness ==
  /\ handler = "update_ACC_only"
  /\ circling_state = CIRCLING
  /\ nav_correction # ZeroVector
  /\ gyro_integrator # ZeroVector

\* C9: judged on the state evaluated on the tick, a DGNSS tick adds the P term
\* to the gyro integrator exactly in STRAIGHT_FLIGHT, a magnetometer tick
\* exactly in STRAIGHT_FLIGHT and TRANSITION; otherwise the integrator is kept.
C9_IntegratorModeRule ==
  [][ /\ handler' = "update_diff_GNSS" =>
           gyro_integrator' = IF circling_state' = STRAIGHT_FLIGHT
                              THEN VAdd(gyro_integrator, PTerm)
                              ELSE gyro_integrator
      /\ handler' = "update_compass" =>
           gyro_integrator' = IF circling_state' \in { STRAIGHT_FLIGHT, TRANSITION }
                              THEN VAdd(gyro_integrator, PTerm)
                              ELSE gyro_integrator ]_vars

\* a magnetometer tick in TRANSITION with a correction to integrate
C9_Witness ==
  /\ handler = "update_compass"
  /\ circling_state = TRANSITION
  /\ nav_correction # ZeroVector
  /\ gyro_integrator # ZeroVector

\* C10: a commit replaces the expected Earth induction by the normalised
\* estimate only if the Earth collector holds data, the automatic Earth-field
\* adaptation is enabled and the square root of the variance is strictly below
\* INDUCTION_STD_DEVIATION_LIMIT; otherwise the expected induction is kept.
C10_EarthInductionAcceptance ==
  [][ CommitTick =>
        expected_nav_induction' =
          IF EarthInductionTaken
          THEN Normalize(get_estimated_induction(earth_induction_data_collector))
          ELSE expected_nav_induction ]_vars

\* a commit with adaptation enabled and the deviation at the limit kept the
\* expected induction
C10_Witness ==
  /\ Called(calls, "handle_magnetic_calibration")
  /\ automatic_earth_field_parameters
  /\ report_out # << >>
  /\ report_out[1].nav_induction_std_deviation = INDUCTION_STD_DEVIATION_LIMIT
  /\ report_out[1].nav_induction = expected_nav_induction

\* the filters of the GNSS path, by name
GNSSPathFilters ==
  { "windspeed_decimator_100Hz_10Hz", "KalmanVario_GNSS", "Kalman_v_a_observer_N",
    "Kalman_v_a_observer_E", "specific_energy_differentiator",
    "GNSS_INS_speedcomp_fusioner" }

\* the last step was an observer tick without a GNSS fix
NoFixTicked == stepped # {} /\ ~ GNSS_fix_avaliable

\* C11: after every flight-observer tick without a GNSS fix the GNSS outputs
\* mirror the pressure path: vario_uncompensated_GNSS equals
\* vario_uncompensated_pressure, speed_compensation_GNSS equals
\* speed_compensation_IAS, and the GNSS vario averager was fed the same input
\* as the pressure vario averager.
C11_NoFixMirrorsPressurePath ==
  NoFixTicked =>
    /\ vario_uncompensated_GNSS = vario_uncompensated_pressure
    /\ speed_compensation_GNSS = speed_compensation_IAS
    /\ vario_averager_GNSS.input = vario_averager_pressure.input
    /\ "vario_averager_GNSS" \in stepped
    /\ "vario_averager_pressure" \in stepped

\* a tick without a fix mirrored a climb and a speed change after ticks with a
\* fix had driven the two averagers apart
C11_Witness ==
  /\ NoFixTicked
  /\ vario_uncompensated_pressure # 0
  /\ speed_compensation_IAS # 0
  /\ vario_averager_GNSS.output # vario_averager_pressure.output

\* C17: a flight-observer tick without a GNSS fix steps none of the filters
\* of the GNSS path (vertical Kalman, north and east Kalman, wind decimator,
\* specific-energy differentiator, blender) and keeps specific_energy and the
\* three speed compensations of the last tick with a fix; every tick steps
\* the pressure Kalman filter and the IAS differentiator.
C17_NoFixKeepsGNSSPath ==
  [][ stepped' # {} =>
      /\ ~ GNSS_fix_avaliable' =>
           /\ gnss_filter_vars' = gnss_filter_vars
           /\ gnss_output_vars' = gnss_output_vars
           /\ stepped' \cap GNSSPathFilters = {}
      /\ { "KalmanVario_pressure", "kinetic_energy_differentiator" } \subseteq stepped'
      /\ \E pressure_altitude \in AltitudeInputs,
            ahrs_acceleration \in ObserverAccelerationInputs, IAS \in AirspeedInputs :
              /\ KalmanVario_pressure' =
                   KalmanVario_update(KalmanVario_pressure, pressure_altitude,
                                      ahrs_acceleration[DOWN])
              /\ kinetic_energy_differentiator' =
                   differentiator_respond(kinetic_energy_differentiator,
                                          IAS * IAS * ONE_DIV_BY_GRAVITY_TIMES_2) ]_vars

\* a tick without a fix kept the GNSS path of an earlier tick with a fix
\* while the pressure path moved on
C17_Witness ==
  /\ NoFixTicked
  /\ specific_energy # 0
  /\ speed_compensation_INS_GNSS_1 # 0
  /\ KalmanVario_GNSS.vario # 0
  /\ vario_uncompensated_GNSS # - KalmanVario_GNSS.vario
  /\ KalmanVario_pressure.altitude # 0

\* ------------------------------------------------------------ NMEA formatter
IsDigit(c) == c >= Char.zero /\ c <= Char.zero + 9

\* the last formatter call emitted a sentence: a '$' body completed with its tail
Emitted ==
  \/ nmea_call.function = "format_RMC"
  \/ nmea_call.function = "format_NMEA_string"
  \/ nmea_call.function = "NMEA_append_tail" /\ At(nmea_call.input, 1) = Char.dollar

\* the text at the start of the buffer: its bytes before the first NUL
Text(string) ==
  LET ends == { i \in 1..Len(string) : string[i] = Char.NUL }
  IN  IF ends = {} THEN string
      ELSE SubSeq(string, 1, (CHOOSE i \in ends : \A j \in ends : i <= j) - 1)

\* where the sentences of a text start: at its beginning and after each LF
SentenceStarts(text) ==
  { 1 } \cup { i + 1 : i \in { j \in 1..(Len(text) - 1) : text[j] = Char.LF } }

\* a pointer to index i of the buffer
TextAt(string, i) == SubSeq(string, i, Len(string))

\* C12 as stated: NMEA_checksum reports valid for every sentence the formatter
\* emits, that is for every '$' body completed by NMEA_append_tail, each of
\* the six sentences of format_NMEA_string included.
C12_AsStated ==
  Emitted =>
    \A i \in SentenceStarts(Text(NMEA_buf.string)) :
      NMEA_checksum(TextAt(NMEA_buf.string, i))

\* "$GPRMC,123456.00,A,4830.00000,N,00915.00000,E,0972.0,0900.0,010224,,,A*"
RMCClaimedText ==
  << 36, 71, 80, 82, 77, 67, 44, 49, 50, 51, 52, 53, 54, 46, 48, 48, 44,
     65, 44, 52, 56, 51, 48, 46, 48, 48, 48, 48, 48, 44, 78, 44, 48, 48,
     57, 49, 53, 46, 48, 48, 48, 48, 48, 44, 69, 44, 48, 57, 55, 50, 46,
     48, 44, 48, 57, 48, 48, 46, 48, 44, 48, 49, 48, 50, 50, 52, 44, 44,
     44, 65, 42 >>

RMCExampleFormatted ==
  nmea_call.function = "format_RMC" /\ nmea_call.input = RMCExample

\* C13 as stated: format_RMC and NMEA_append_tail on the example coordinates
\* yield "$GPRMC,123456.00,A,4830.00000,N,00915.00000,E,0972.0,0900.0,010224,,,A*",
\* two hexadecimal checksum characters, CR and LF.
C13_AsStated ==
  RMCExampleFormatted =>
    LET n    == Len(RMCClaimedText)
        text == Text(NMEA_buf.string)
    IN  /\ Len(text) = n + 4
        /\ SubSeq(text, 1, n) = RMCClaimedText
        /\ \E hi, lo \in 0..15 : text[n + 1] = hex4(hi) /\ text[n + 2] = hex4(lo)
        /\ text[n + 3] = Char.CR
        /\ text[n + 4] = Char.LF

\* the value of a field DDMM.MMMMM, in 1e-5 arc minutes
AngleFieldValue(text) ==
  LET d(i) == text[i] - Char.zero
  IN  ((d(1) * 10 + d(2)) * MinutesPerDegree + d(3) * 10 + d(4)) * 100000
        + d(6) * 10000 + d(7) * 1000 + d(8) * 100 + d(9) * 10 + d(10)

\* C14 as stated: for every latitude up to 90 degrees and every longitude up
\* to 180 degrees in magnitude the twelve characters angle_format writes, here
\* at the start of the buffer, are DDMM.MMMMM,<hemisphere> with
\* every D and M a decimal digit and exactly five fractional digits, and the
\* field is the magnitude of the angle in degrees and minutes rounded to 1e-5
\* arc minute, a fraction that rounds up to a full minute carrying into the
\* minutes.
C14_AsStated ==
  nmea_call.function = "angle_format" =>
    LET angle == nmea_call.input.angle
        posc  == IF nmea_call.input.kind = "latitude" THEN Char.N ELSE Char.E
        negc  == IF nmea_call.input.kind = "latitude" THEN Char.S ELSE Char.W
    IN  /\ Len(NMEA_buf.string) >= 12
        /\ \A i \in { 1, 2, 3, 4, 6, 7, 8, 9, 10 } : IsDigit(NMEA_buf.string[i])
        /\ NMEA_buf.string[5] = Char.dot
        /\ NMEA_buf.string[11] = Char.comma
        /\ NMEA_buf.string[12] \in { posc, negc }
        /\ IsPositive(angle) => NMEA_buf.string[12] = posc
        /\ IsPositive(Angle(angle.degree, 0, angle.minutes)) /\ angle.sign < 0
             => NMEA_buf.string[12] = negc
        /\ AngleFieldValue(NMEA_buf.string)
             = angle.degree * MinutesPerDegree * 100000 + ((angle.minutes + 5) \div 10)

\* ---------------------------------------------- leaving circling in update()
\* how often a tick called the member function
TimesCalled(cs, name) == Cardinality({ i \in 1..Len(cs) : cs[i] = name })

\* the tick is one of update(): a D-GNSS tick or a magnetometer tick
UpdateTicked == handler' \in { "update_diff_GNSS", "update_compass" }

\* C16: with automatic magnetic calibration enabled and CIRCLE_LIMIT >= 2, no
\* tick of update(), D-GNSS or magnetometer in any interleaving, takes the
\* state from CIRCLING to STRAIGHT_FLIGHT or back in one step; every tick on
\* which the state leaves CIRCLING goes to TRANSITION and calls
\* handle_magnetic_calibration exactly once.
C16_NoMissedExit ==
  [][ (automatic_magnetic_calibration /\ UpdateTicked) =>
        /\ ~ (circling_state = CIRCLING /\ circling_state' = STRAIGHT_FLIGHT)
        /\ ~ (circling_state = STRAIGHT_FLIGHT /\ circling_state' = CIRCLING)
        /\ (circling_state = CIRCLING /\ circling_state' # CIRCLING) =>
             /\ circling_state' = TRANSITION
             /\ TimesCalled(calls', "handle_magnetic_calibration") = 1 ]_vars

C16_Witness ==
  /\ CIRCLE_LIMIT >= 2
  /\ automatic_magnetic_calibration
  /\ handler = "update_diff_GNSS"
  /\ old_circle_state = CIRCLING
  /\ circling_state = TRANSITION
  /\ TimesCalled(calls, "handle_magnetic_calibration") = 1

====
